---------------------------- MODULE Spec2Model ----------------------------
(***************************************************************************)
(* Model of starlink_nmea.py: the NMEA sentence encoder, the location      *)
(* extractor, the dish locator, the telemetry acquirer and the two         *)
(* distribution loops (serve_tcp, serve_udp).                              *)
(*                                                                         *)
(* Conventions                                                             *)
(*   - A Python str is a sequence of one-character strings.                *)
(*   - A Python float is the double nearest to a decimal with at most six  *)
(*     decimals, written as an integer count of millionths (Scale): 10.5   *)
(*     is 10500000.  Formatting rounds the double, not the decimal: where  *)
(*     the decimal sits on a rounding tie, the side the double falls on    *)
(*     decides (FloatErr, MinutesErr).  Floats are finite (no NaN, no      *)
(*     infinity).                                                          *)
(*   - Python None is the record None; every Python value is a record      *)
(*     tagged by its field t.                                              *)
(*   - An exception is an instance of Exception (TypeError or another      *)
(*     subclass); KeyboardInterrupt and SystemExit are process shutdown.   *)
(***************************************************************************)
EXTENDS Integers, Sequences, FiniteSets, TLC

\* ------------------------------------------------------------------------
\* Bounds of the model
\* ------------------------------------------------------------------------

\* Largest value of the monotonic clock (seconds) the loops are followed to.
MaxTime == 35

\* Number of TCP connections ever made to the server.
MaxClients == 3

\* Longest sentence body handed to nmea_checksum on its own.
MaxBody == 3

\* Most pieces of text between the head and the tail of an HTML body.
MaxPieces == 6

\* ------------------------------------------------------------------------
\* Program constants
\* ------------------------------------------------------------------------

\* serve_tcp / serve_udp: "time.monotonic() - last_detect > 30"
REDETECT_AFTER == 30

\* One float unit: values are counted in millionths.
Scale == 1000 * 1000

\* ------------------------------------------------------------------------
\* Strings and number formatting
\* ------------------------------------------------------------------------

Digits == <<"0", "1", "2", "3", "4", "5", "6", "7", "8", "9">>

Upper == <<"A", "B", "C", "D", "E", "F", "G", "H", "I", "J", "K", "L", "M",
           "N", "O", "P", "Q", "R", "S", "T", "U", "V", "W", "X", "Y", "Z">>

\* The characters the sentences are made of, and a few more ASCII
\* characters, each with its code.
CharCodes ==
    [i \in 1..10 |-> <<Digits[i], 47 + i>>] \o [i \in 1..26 |-> <<Upper[i], 64 + i>>]
    \o << <<"$", 36>>, <<"*", 42>>, <<",", 44>>, <<"-", 45>>, <<".", 46>>,
          <<"\r", 13>>, <<"\n", 10>>, <<"\t", 9>>, <<" ", 32>>, <<"a", 97>>,
          <<"z", 122>>, <<"~", 126>> >>

OrdTable ==
    [ch \in {CharCodes[i][1] : i \in 1..Len(CharCodes)} |->
        (CHOOSE i \in 1..Len(CharCodes) : CharCodes[i][1] = ch)]

\* ord(ch)
Ord(ch) == CharCodes[OrdTable[ch]][2]

\* a ^ b on non-negative integers, bit by bit.
RECURSIVE BitXor(_, _)
BitXor(a, b) ==
    IF a = 0 THEN b
    ELSE IF b = 0 THEN a
    ELSE (((a % 2) + (b % 2)) % 2) + 2 * BitXor(a \div 2, b \div 2)

\* a ^ b for half-bytes, computed once.
XorTable == [a \in 0..15 |-> [b \in 0..15 |-> BitXor(a, b)]]

\* a ^ b for bytes.
Xor(a, b) == 16 * XorTable[a \div 16][b \div 16] + XorTable[a % 16][b % 16]

\* str(n) for n >= 0.
RECURSIVE DecStr(_)
DecStr(n) ==
    IF n < 10 THEN <<Digits[n + 1]>>
    ELSE DecStr(n \div 10) \o <<Digits[(n % 10) + 1]>>

\* Left-pad with "0" to a minimum width (the 0w of a format spec).
RECURSIVE ZeroPad(_, _)
ZeroPad(s, w) == IF Len(s) >= w THEN s ELSE ZeroPad(<<"0">> \o s, w)

\* f"{n:02d}" and f"{n:03d}" for n >= 0.
FmtInt(n, w) == ZeroPad(DecStr(n), w)

\* 10^6 = 2^6 * 5^6: the odd part of the denominator of a count of millionths.
Fives == 125 * 125

\* The largest j with n / 2^j >= Scale (n >= Scale).
RECURSIVE Log2Up(_)
Log2Up(n) == IF n \div 2 >= Scale THEN 1 + Log2Up(n \div 2) ELSE 0

\* The smallest j with n * 2^j >= Scale (0 < n).
RECURSIVE Log2Down(_)
Log2Down(n) == IF n >= Scale THEN 0 ELSE 1 + Log2Down(2 * n)

\* floor(log2(n / Scale)) for n > 0: the binary exponent of the double.
FloorLog2(n) == IF n >= Scale THEN Log2Up(n) ELSE 0 - Log2Down(n)

\* 2^e modulo Fives.
RECURSIVE Pow2Mod(_)
Pow2Mod(e) ==
    IF e = 0 THEN 1
    ELSE LET h == Pow2Mod(e \div 2)
             r == (h * h) % Fives
         IN  IF e % 2 = 0 THEN r ELSE (2 * r) % Fives

\* The double nearest to n / Scale is M / 2^k with 2^52 <= M < 2^53: k.
Exponent(n) == 52 - FloorLog2(n)

\* (n / Scale) * 2^k = n * 2^(k - 6) / Fives: the remainder of that division.
\* The 53-bit significand M is the quotient, or the quotient plus one when
\* the remainder is more than half of Fives (round to nearest).
Remainder(n) == ((n % Fives) * Pow2Mod(Exponent(n) - 6)) % Fives

\* M - (n / Scale) * 2^k in units of 1 / Fives: what float(n / Scale) adds
\* to the decimal, in units of the last place.
Delta(n) ==
    LET r == Remainder(n)
    IN  IF 2 * r < Fives THEN 0 - r ELSE Fives - r

Sign(x) == IF x > 0 THEN 1 ELSE IF x < 0 THEN 0 - 1 ELSE 0

\* The side of n / Scale the double nearest to it falls on: -1 below, 0 when
\* the decimal is a double, 1 above (n >= 0).
FloatErr(n) == IF n = 0 THEN 0 ELSE Sign(Delta(n))

\* The side of its exact decimal value the float "(value - degrees) * 60.0"
\* of format_lat_lon falls on, for value = float(v / Scale), v >= 0.  With
\* M the significand of value and k its exponent, value - degrees is the
\* double F / 2^k (F = M - degrees * 2^k, exact), and the product is
\* 60 * F / 2^k rounded to 53 bits, that is to a multiple of 2^s, ties to
\* even.  The low bits of 60 * F follow from M modulo 32, which is
\* 7 * Remainder(v) modulo 32 for the quotient (7 * Fives = -1 modulo 32).
MinutesErr(v) ==
    LET degrees == v \div Scale
        minutes == (v - degrees * Scale) * 60
        k   == Exponent(v)
        dn  == Delta(v)
        m32 == (((7 * Remainder(v)) % 32) + (IF dn > 0 THEN 1 ELSE 0)) % 32
        g7  == (60 * m32) % 128
        e   == FloorLog2(minutes) + k - 52
        s   == IF e > 0 THEN e ELSE 0
        p   == 2 ^ s
        g   == g7 % p
        rho == IF 2 * g < p THEN 0 - g
               ELSE IF 2 * g > p THEN p - g
               ELSE IF (g7 \div p) % 2 = 0 THEN 0 - g ELSE p - g
    IN  IF minutes = 0 THEN 0 ELSE Sign(Fives * rho + 60 * dn)

\* round(x) to the nearest integer for the float x = n / d + (an error of
\* sign err, below any distance between two values n / d): the nearest
\* integer to n / d, and at a tie of n / d the side the float is on, or the
\* even neighbour when the float is the tie itself (n >= 0, d > 0).
RoundFloat(n, d, err) ==
    LET q == n \div d
        r == n % d
    IN  IF 2 * r < d THEN q
        ELSE IF 2 * r > d THEN q + 1
        ELSE IF err < 0 THEN q
        ELSE IF err > 0 THEN q + 1
        ELSE IF q % 2 = 0 THEN q ELSE q + 1

\* f"{x:0w.pf}" for a float x >= 0 that is x millionths plus an error of
\* sign err: p decimals, minimum width w.
FmtFloat(x, err, w, p) ==
    LET unit == IF p = 3 THEN 1000 ELSE 10
        k    == RoundFloat(x, Scale \div unit, err)
    IN  ZeroPad(DecStr(k \div unit) \o <<".">> \o ZeroPad(DecStr(k % unit), p), w)

\* f"{x:0w.pf}" for the float nearest to x millionths, x >= 0.
FmtFixed(x, w, p) == FmtFloat(x, FloatErr(x), w, p)

\* f"{x:.1f}" for any x given as millionths.
Fmt1f(x) == IF x < 0 THEN <<"-">> \o FmtFixed(0 - x, 0, 1) ELSE FmtFixed(x, 0, 1)

Abs(x) == IF x < 0 THEN 0 - x ELSE x

\* ------------------------------------------------------------------------
\* Sentence encoder
\* ------------------------------------------------------------------------

\* The loop "checksum = 0; for ch in s: checksum ^= ord(ch)".  The running
\* value after the characters lo..hi is folded in two halves to keep the
\* evaluation shallow: ^ is associative and 0 is its identity, so the value
\* is that of the left-to-right loop.
RECURSIVE XorRange(_, _, _)
XorRange(s, lo, hi) ==
    IF lo > hi THEN 0
    ELSE IF lo = hi THEN Xor(0, Ord(s[lo]))
    ELSE LET mid == (lo + hi) \div 2
         IN  Xor(XorRange(s, lo, mid), XorRange(s, mid + 1, hi))

XorFold(s) == XorRange(s, 1, Len(s))

HexDigits == <<"0", "1", "2", "3", "4", "5", "6", "7",
               "8", "9", "A", "B", "C", "D", "E", "F">>

\* f"{checksum:02X}" for a checksum below 256.
Hex02X(c) == <<HexDigits[(c \div 16) + 1], HexDigits[(c % 16) + 1]>>

\* f"{checksum:X}": the checksum without the zero padding.
HexX(c) == IF c < 16 THEN <<HexDigits[c + 1]>> ELSE Hex02X(c)

nmea_checksum_NoPad(sentence_body) == HexX(XorFold(sentence_body))

nmea_checksum(sentence_body) == Hex02X(XorFold(sentence_body))

\* format_lat_lon with the two-digit degrees of a latitude for a longitude too.
format_lat_lon_TwoDigits(value, is_lat) ==
    LET hemi    == IF value < 0
                   THEN (IF is_lat THEN "S" ELSE "W")
                   ELSE (IF is_lat THEN "N" ELSE "E")
        v       == Abs(value)
        degrees == v \div Scale
        minutes == (v - degrees * Scale) * 60
    IN  <<FmtInt(degrees, 2) \o FmtFloat(minutes, MinutesErr(v), 6, 3), hemi>>

\* The pair (field, hemisphere) of format_lat_lon.
format_lat_lon(value, is_lat) ==
    LET hemi    == IF value < 0
                   THEN (IF is_lat THEN "S" ELSE "W")
                   ELSE (IF is_lat THEN "N" ELSE "E")
        v       == Abs(value)
        degrees == v \div Scale
        minutes == (v - degrees * Scale) * 60
    IN  IF is_lat
        THEN <<FmtInt(degrees, 2) \o FmtFloat(minutes, MinutesErr(v), 6, 3), hemi>>
        ELSE <<FmtInt(degrees, 3) \o FmtFloat(minutes, MinutesErr(v), 6, 3), hemi>>

\* ts_utc.strftime("%H%M%S") and ts_utc.strftime("%d%m%y")
StrfHMS(ts) == FmtInt(ts.hour, 2) \o FmtInt(ts.minute, 2) \o FmtInt(ts.second, 2)
StrfDMY(ts) == FmtInt(ts.day, 2) \o FmtInt(ts.month, 2) \o FmtInt(ts.year % 100, 2)

Comma == <<",">>

\* The body of the RMC sentence; speed_knots and track_deg are never passed
\* by the callers, so both render as "0.0".
RmcBody(ts_utc, lat, lon) ==
    LET la == format_lat_lon(lat, TRUE)
        lo == format_lat_lon(lon, FALSE)
    IN  <<"G", "P", "R", "M", "C", ",">> \o StrfHMS(ts_utc) \o <<".", "0", "0", ",", "A", ",">>
        \o la[1] \o Comma \o <<la[2]>> \o Comma \o lo[1] \o Comma \o <<lo[2]>> \o Comma
        \o Fmt1f(0) \o Comma \o Fmt1f(0) \o Comma \o StrfDMY(ts_utc)
        \o <<",", ",", ",", "A">>

build_rmc(ts_utc, lat, lon) ==
    LET body == RmcBody(ts_utc, lat, lon)
    IN  <<"$">> \o body \o <<"*">> \o nmea_checksum(body)

\* The body of the GGA sentence; alt_m is a float or None ("alt_m or 0.0").
GgaBody(ts_utc, lat, lon, alt_m) ==
    LET la  == format_lat_lon(lat, TRUE)
        lo  == format_lat_lon(lon, FALSE)
        alt == IF alt_m.t = "num" /\ alt_m.v # 0 THEN alt_m.v ELSE 0
    IN  <<"G", "P", "G", "G", "A", ",">> \o StrfHMS(ts_utc) \o <<".", "0", "0", ",">>
        \o la[1] \o Comma \o <<la[2]>> \o Comma \o lo[1] \o Comma \o <<lo[2]>> \o Comma
        \o <<"1", ",", "0", "8", ",", "1", ".", "0", ",">> \o Fmt1f(alt)
        \o <<",", "M", ",", "0", ".", "0", ",", "M", ",", ",">>

build_gga(ts_utc, lat, lon, alt_m) ==
    LET body == GgaBody(ts_utc, lat, lon, alt_m)
    IN  <<"$">> \o body \o <<"*">> \o nmea_checksum(body)

CRLF == <<"\r", "\n">>

\* ------------------------------------------------------------------------
\* Python values and the location extractor
\* ------------------------------------------------------------------------

None == [t |-> "none"]

\* A float (or int) of value v millionths.
Num(v) == [t |-> "num", v |-> v]

\* A str: float(s) gives v millionths when ok, raises ValueError otherwise.
Str(ok, v) == [t |-> "str", ok |-> ok, v |-> v]

\* A dict with the items of the record d (its fields are the keys).
Dict(d) == [t |-> "dict", d |-> d]

\* The items of the empty dict.
NoItems == [k \in {} |-> None]

\* An object of some class whose attributes are the fields of the record d.
Obj(d) == [t |-> "obj", d |-> d]

\* A list: float(x) raises TypeError; it is true when non-empty.
List(n) == [t |-> "list", n |-> n]

\* A str holding an address, a host name or a path (never read as a number).
Text(s) == [t |-> "text", s |-> s]

\* An int too large for a float: float(x) raises OverflowError.
Big == [t |-> "big"]

\* The outcome of a call that raises an exception of class e.
Raise(e) == [t |-> "raise", e |-> e]

\* bool(x)
Truthy(x) ==
    CASE x.t = "none" -> FALSE
      [] x.t = "num"  -> x.v # 0
      [] x.t = "str"  -> TRUE
      [] x.t = "dict" -> DOMAIN x.d # {}
      [] x.t = "obj"  -> TRUE
      [] x.t = "list" -> x.n > 0
      [] x.t = "text" -> x.s # ""
      [] x.t = "big"  -> TRUE

\* float(value) with TypeError and ValueError caught; the OverflowError of
\* an int too large is not caught and leaves the function.
_to_float(value) ==
    CASE value.t = "none" -> None
      [] value.t = "num"  -> value
      [] value.t = "str"  -> IF value.ok THEN Num(value.v) ELSE None
      [] value.t = "big"  -> Raise("OverflowError")
      [] OTHER            -> None

\* "name in obj" for a dict, hasattr(obj, name) for an object; none of the
\* names looked up is an attribute of dict, str, float, list or NoneType.
HasName(obj, name) == obj.t \in {"dict", "obj"} /\ name \in DOMAIN obj.d

RECURSIVE _get_attr(_, _)
_get_attr(obj, names) ==
    IF names = <<>> THEN None
    ELSE IF HasName(obj, Head(names)) THEN obj.d[Head(names)]
    ELSE _get_attr(obj, Tail(names))

LatNames == <<"lat", "latitude">>
LonNames == <<"lon", "longitude">>
AltNames == <<"alt", "altitude", "altitude_m", "altitudeMeters">>

\* {"lat": lat, "lon": lon, "alt": alt or 0.0}
Location(lat, lon, alt) ==
    [t |-> "loc", lat |-> lat.v, lon |-> lon.v,
     alt |-> IF alt.t = "num" THEN alt.v ELSE 0]

\* One of the three searches of _extract_location: the location read from
\* the fields of obj, or None; the exception of a coercion, in the order
\* lat, lon, alt, leaves the search.
FieldsOf(obj) ==
    LET lat == _to_float(_get_attr(obj, LatNames))
        lon == _to_float(_get_attr(obj, LonNames))
        alt == _to_float(_get_attr(obj, AltNames))
    IN  IF lat.t = "raise" THEN lat
        ELSE IF lon.t = "raise" THEN lon
        ELSE IF alt.t = "raise" THEN alt
        ELSE IF lat # None /\ lon # None THEN Location(lat, lon, alt) ELSE None

\* The value returned, or the Raise of a coercion that leaves the function.
_extract_location(payload) ==
    IF payload = None THEN None
    ELSE IF FieldsOf(payload) # None THEN FieldsOf(payload)
    ELSE LET gps_stats == _get_attr(payload, <<"gps_stats", "gpsStats">>)
             location  == _get_attr(payload, <<"location", "position">>)
         IN  IF Truthy(gps_stats) /\ FieldsOf(gps_stats) # None
             THEN FieldsOf(gps_stats)
             ELSE IF Truthy(location) /\ FieldsOf(location) # None
             THEN FieldsOf(location)
             ELSE None

\* ------------------------------------------------------------------------
\* Device locator
\* ------------------------------------------------------------------------

DEFAULT_IP == "192.168.100.1"

\* The port probed on the default address.
DIAG_PORT == 9200

\* _probe_port: TRUE when the connection is made, FALSE on OSError.
\* reachable is what the network does with the connection attempt.
_probe_port(reachable) == reachable

\* a or b
Or(a, b) == IF Truthy(a) THEN a ELSE b

\* The hostname loop of detect_dish_host: the first name gethostbyname
\* resolves to a non-empty address, with the lookups made.  dns gives, for
\* each name, the address or Raise("gaierror").
LookupHostnames(dns) ==
    LET d == dns["dish"]
        k == dns["starlink"]
        e1 == [op |-> "gethostbyname", name |-> "dish"]
        e2 == [op |-> "gethostbyname", name |-> "starlink"]
    IN  IF d.t # "raise" /\ Truthy(d) THEN [ret |-> d, trace |-> <<e1>>]
        ELSE IF k.t # "raise" /\ Truthy(k) THEN [ret |-> k, trace |-> <<e1, e2>>]
        ELSE [ret |-> None, trace |-> <<e1, e2>>]

\* EnvHost reading STARLINK_DISH_HOST before STARLINK_DISH_IP.
EnvHost_HostFirst(env) == Or(env["STARLINK_DISH_HOST"], env["STARLINK_DISH_IP"])

\* os.environ.get("STARLINK_DISH_IP") or os.environ.get("STARLINK_DISH_HOST")
EnvHost(env) == Or(env["STARLINK_DISH_IP"], env["STARLINK_DISH_HOST"])

\* detect_dish_host(explicit) in the environment net = [env, dns, probe]:
\* the address (or None) and the network operations made, in order.
detect_dish_host(explicit, net) ==
    LET env_host == EnvHost(net.env)
        looked   == LookupHostnames(net.dns)
        probe    == [op |-> "connect", host |-> DEFAULT_IP, port |-> DIAG_PORT]
    IN  IF Truthy(explicit) THEN [ret |-> explicit, trace |-> <<>>]
        ELSE IF Truthy(env_host) THEN [ret |-> env_host, trace |-> <<>>]
        ELSE IF looked.ret # None THEN looked
        ELSE IF _probe_port(net.probe)
        THEN [ret |-> Text(DEFAULT_IP), trace |-> looked.trace \o <<probe>>]
        ELSE [ret |-> None, trace |-> looked.trace \o <<probe>>]

\* ------------------------------------------------------------------------
\* Telemetry acquirer
\* ------------------------------------------------------------------------

\* _call_with_host with "except Exception" in place of "except TypeError".
_call_with_host_AnyException(func, dish_host) ==
    IF Truthy(dish_host)
    THEN IF func.kw.t # "raise"
         THEN [ret |-> func.kw, calls |-> <<"kw">>]
         ELSE IF func.pos.t # "raise"
         THEN [ret |-> func.pos, calls |-> <<"kw", "pos">>]
         ELSE [ret |-> func.noarg, calls |-> <<"kw", "pos", "noarg">>]
    ELSE [ret |-> func.noarg, calls |-> <<"noarg">>]

\* A callable of the client library is the record of what each call shape
\* does: [kw, pos, noarg], each a returned value or a Raise.
\* _call_with_host: the outcome and the call shapes tried, in order.
_call_with_host(func, dish_host) ==
    IF Truthy(dish_host)
    THEN IF func.kw # Raise("TypeError")
         THEN [ret |-> func.kw, calls |-> <<"kw">>]
         ELSE IF func.pos # Raise("TypeError")
         THEN [ret |-> func.pos, calls |-> <<"kw", "pos">>]
         ELSE [ret |-> func.noarg, calls |-> <<"kw", "pos", "noarg">>]
    ELSE [ret |-> func.noarg, calls |-> <<"noarg">>]

\* resp.getheader("Content-Type", "").strip().split(";")[0] == "application/json"
\* for the content types of the model.
IsJsonType(ctype) ==
    CASE ctype = "application/json"                -> TRUE
      [] ctype = "application/json; charset=utf-8" -> TRUE
      [] ctype = " application/json "              -> TRUE
      [] ctype = "application/json ; charset=utf-8" -> FALSE
      [] OTHER                                     -> FALSE

\* A body is a sequence of pieces of text: the braces "{" and "}" each on
\* their own, and pieces without braces.  The documents json.loads accepts:
DocLocation ==
    <<"{", "\"location\":", "{",
      "\"latitude\":10.5,\"longitude\":20.25,\"altitudeMeters\":100", "}", "}">>

DocFlat == <<"{", "\"lat\":-33.9,\"lon\":-122.4783", "}">>

DocNoFix == <<"{", "\"state\":\"SEARCHING\"", "}">>

DocInner == <<"{", "\"latitude\":10.5,\"longitude\":20.25,\"altitudeMeters\":100", "}">>

\* A document whose latitude is an integer of 401 digits.
DocBig == <<"{", "\"lat\":<1 followed by 400 zeros>,\"lon\":1", "}">>

\* json.loads(text): the value of a document above, of the empty object
\* and of an object holding one under "location"; ValueError otherwise.
RECURSIVE JsonLoads(_)
JsonLoads(text) ==
    CASE text = DocLocation ->
            Dict([location |-> Dict([latitude |-> Num(10500000),
                                     longitude |-> Num(20250000),
                                     altitudeMeters |-> Num(100000000)])])
      [] text = DocFlat ->
            Dict([lat |-> Num(-33900000), lon |-> Num(-122478300)])
      [] text = DocNoFix -> Dict([state |-> Text("SEARCHING")])
      [] text = DocInner ->
            Dict([latitude |-> Num(10500000), longitude |-> Num(20250000),
                  altitudeMeters |-> Num(100000000)])
      [] text = DocBig -> Dict([lat |-> Big, lon |-> Num(Scale)])
      [] text = <<"{", "}">> -> Dict(NoItems)
      [] OTHER ->
            \* {"location": <document>}
            IF /\ Len(text) >= 5
               /\ text[1] = "{" /\ text[2] = "\"location\":" /\ text[Len(text)] = "}"
               /\ JsonLoads(SubSeq(text, 3, Len(text) - 1)).t = "dict"
            THEN Dict([location |-> JsonLoads(SubSeq(text, 3, Len(text) - 1))])
            ELSE Raise("ValueError")

\* word in body, for the pieces of the model.
Contains(body, word) ==
    \E i \in 1..Len(body) :
        CASE word = "location" -> body[i] \in {"\"location\":", "<title>location</title>"}
          [] word = "latitude" ->
                body[i] \in {"\"latitude\":10.5,\"longitude\":20.25,\"altitudeMeters\":100",
                             "latitude unknown"}

\* body.find("{"): the index of the first "{", 0 when there is none.
FindBrace(body) ==
    IF \E i \in 1..Len(body) : body[i] = "{"
    THEN CHOOSE i \in 1..Len(body) :
            body[i] = "{" /\ \A j \in 1..(i - 1) : body[j] # "{"
    ELSE 0

\* The scan without the depth: it ends at the first "}".
ScanEnd_FirstClose(body, i, depth) ==
    IF \E k \in i..Len(body) : body[k] = "}"
    THEN CHOOSE k \in i..Len(body) :
            body[k] = "}" /\ \A j \in i..(k - 1) : body[j] # "}"
    ELSE 0

\* The depth-counting scan from index i at depth d: the index of the "}"
\* that brings the depth back to zero, 0 when the body ends first.
RECURSIVE ScanEnd(_, _, _)
ScanEnd(body, i, depth) ==
    IF i > Len(body) THEN 0
    ELSE IF body[i] = "{" THEN ScanEnd(body, i + 1, depth + 1)
    ELSE IF body[i] = "}"
    THEN (IF depth - 1 = 0 THEN i ELSE ScanEnd(body, i + 1, depth - 1))
    ELSE ScanEnd(body, i + 1, depth)

\* What one pass of the path loop of get_starlink_location_http does with
\* the response resp: "continue" (next path) or the value returned, and the
\* texts handed to json.loads.
\* resp is Raise(e) when urlopen raises, else [t, ctype, body].
HttpPath(resp) ==
    IF resp.t = "raise" THEN [next |-> TRUE, ret |-> None, parsed |-> <<>>]
    ELSE IF ~IsJsonType(resp.ctype)
    THEN LET body  == resp.body
             start == FindBrace(body)
             end   == ScanEnd(body, start, 0)
             text  == SubSeq(body, start, end)
             data  == JsonLoads(text)
         IN  IF ~Contains(body, "location") \/ ~Contains(body, "latitude")
             THEN [next |-> TRUE, ret |-> None, parsed |-> <<>>]
             ELSE IF start = 0 THEN [next |-> TRUE, ret |-> None, parsed |-> <<>>]
             ELSE IF end = 0 THEN [next |-> TRUE, ret |-> None, parsed |-> <<>>]
             ELSE IF data.t = "raise"
             THEN [next |-> TRUE, ret |-> None, parsed |-> <<text>>]
             ELSE IF _extract_location(data).t = "raise"
             THEN [next |-> TRUE, ret |-> None, parsed |-> <<text>>]
             ELSE [next |-> FALSE, ret |-> _extract_location(data),
                   parsed |-> <<text>>]
    ELSE LET data == JsonLoads(resp.body)
         IN  IF data.t = "raise"
             THEN [next |-> TRUE, ret |-> None, parsed |-> <<resp.body>>]
             ELSE IF _extract_location(data).t = "raise"
             THEN [next |-> TRUE, ret |-> None, parsed |-> <<resp.body>>]
             ELSE [next |-> FALSE, ret |-> _extract_location(data),
                   parsed |-> <<resp.body>>]

\* The json.loads calls made on the response of a path.
ParseEvents(path, parsed) ==
    [i \in 1..Len(parsed) |-> [op |-> "json.loads", path |-> path, text |-> parsed[i]]]

\* get_starlink_location_http(dish_host) against the device web = [diag, root]
\* (its answers to GET /api/diagnostic and GET /): the value returned and
\* the requests and json.loads calls made, in order.
get_starlink_location_http(dish_host, web) ==
    LET g1 == [op |-> "GET", path |-> "/api/diagnostic"]
        g2 == [op |-> "GET", path |-> "/"]
        p1 == HttpPath(web.diag)
        p2 == HttpPath(web.root)
        t1 == <<g1>> \o ParseEvents("/api/diagnostic", p1.parsed)
        t2 == <<g2>> \o ParseEvents("/", p2.parsed)
    IN  IF ~Truthy(dish_host) THEN [ret |-> None, trace |-> <<>>]
        ELSE IF ~p1.next THEN [ret |-> p1.ret, trace |-> t1]
        ELSE IF ~p2.next THEN [ret |-> p2.ret, trace |-> t1 \o t2]
        ELSE [ret |-> None, trace |-> t1 \o t2]

\* A library operation that does not exist (the hasattr test fails).
Absent == [t |-> "absent"]

CallEvents(name, calls) ==
    [i \in 1..Len(calls) |-> [op |-> "call", name |-> name, shape |-> calls[i]]]

\* TryStrategy without its "except Exception: pass": the exception of the
\* call leaves the function.
TryStrategy_NoExcept(name, func, dish_host) ==
    IF func.t = "absent" THEN [returned |-> FALSE, ret |-> None, trace |-> <<>>]
    ELSE LET c == _call_with_host(func, dish_host)
         IN  [returned |-> TRUE,
              ret |-> IF c.ret.t = "raise" THEN c.ret ELSE _extract_location(c.ret),
              trace |-> CallEvents(name, c.calls)]

\* One "try: if <exists>: return _extract_location(_call_with_host(f, host))
\* except Exception: pass" block: whether it returned, the value, the calls.
TryStrategy(name, func, dish_host) ==
    IF func.t = "absent" THEN [returned |-> FALSE, ret |-> None, trace |-> <<>>]
    ELSE LET c == _call_with_host(func, dish_host)
         IN  IF c.ret.t = "raise" \/ _extract_location(c.ret).t = "raise"
             THEN [returned |-> FALSE, ret |-> None,
                   trace |-> CallEvents(name, c.calls)]
             ELSE [returned |-> TRUE, ret |-> _extract_location(c.ret),
                   trace |-> CallEvents(name, c.calls)]

ImportEvent == [op |-> "import", name |-> "starlink_grpc"]

\* get_starlink_location(dish_host) with the library lib = [importable,
\* dish_get_location, grpc_get_location, get_status] and the device web:
\* the value returned and the operations made, in order.
get_starlink_location(dish_host, lib, web) ==
    LET s1 == TryStrategy("dish.get_location", lib.dish_get_location, dish_host)
        s2 == TryStrategy("grpc.get_location", lib.grpc_get_location, dish_host)
        s3 == TryStrategy("get_status", lib.get_status, dish_host)
        h  == get_starlink_location_http(dish_host, web)
    IN  IF ~lib.importable THEN [ret |-> None, trace |-> <<ImportEvent>>]
        ELSE IF s1.returned
        THEN [ret |-> s1.ret, trace |-> <<ImportEvent>> \o s1.trace]
        ELSE IF s2.returned
        THEN [ret |-> s2.ret, trace |-> <<ImportEvent>> \o s1.trace \o s2.trace]
        ELSE IF s3.returned
        THEN [ret |-> s3.ret,
              trace |-> <<ImportEvent>> \o s1.trace \o s2.trace \o s3.trace]
        ELSE [ret |-> h.ret,
              trace |-> <<ImportEvent>> \o s1.trace \o s2.trace \o s3.trace \o h.trace]

\* get_starlink_location_from_file(path): file is what open/json.load give,
\* Raise(e) for a missing or unparsable file, else the text of the file.
get_starlink_location_from_file(file) ==
    IF file.t = "raise" THEN None
    ELSE LET data == JsonLoads(file.body)
         IN  IF data.t = "raise" \/ _extract_location(data).t = "raise"
             THEN None
             ELSE _extract_location(data)

\* ------------------------------------------------------------------------
\* Distribution loops: helpers
\* ------------------------------------------------------------------------

\* Payload with the two sentences in the other order.
Payload_GgaFirst(stamp, loc) ==
    build_gga(stamp, loc.lat, loc.lon, Num(loc.alt)) \o CRLF
    \o build_rmc(stamp, loc.lat, loc.lon) \o CRLF

\* f"{rmc}\r\n{gga}\r\n" of one cycle: both sentences from the timestamp
\* and the location of the cycle.
Payload(stamp, loc) ==
    build_rmc(stamp, loc.lat, loc.lon) \o CRLF
    \o build_gga(stamp, loc.lat, loc.lon, Num(loc.alt)) \o CRLF

\* The send pass of serve_tcp ("for client in clients: try sendall ...
\* except: close") when sendall fails for the clients in failing: the alive
\* list, the sendall calls and the sockets closed, each in order.  A close()
\* that raises is swallowed and leaves the same state.
RECURSIVE SendLoop(_, _, _)
SendLoop(clients, payload, failing) ==
    IF clients = <<>> THEN [alive |-> <<>>, writes |-> <<>>, closed |-> <<>>]
    ELSE LET client == Head(clients)
             rest   == SendLoop(Tail(clients), payload, failing)
             w      == [client |-> client, data |-> payload]
         IN  IF client \in failing
             THEN [alive |-> rest.alive, writes |-> <<w>> \o rest.writes,
                   closed |-> <<client>> \o rest.closed]
             ELSE [alive |-> <<client>> \o rest.alive,
                   writes |-> <<w>> \o rest.writes, closed |-> rest.closed]

\* The send pass with a "break" in the except branch: the pass stops at the
\* first client whose write fails.
RECURSIVE SendLoop_Break(_, _, _)
SendLoop_Break(clients, payload, failing) ==
    IF clients = <<>> THEN [alive |-> <<>>, writes |-> <<>>, closed |-> <<>>]
    ELSE LET client == Head(clients)
             rest   == SendLoop_Break(Tail(clients), payload, failing)
             w      == [client |-> client, data |-> payload]
         IN  IF client \in failing
             THEN [alive |-> <<>>, writes |-> <<w>>, closed |-> <<client>>]
             ELSE [alive |-> <<client>> \o rest.alive,
                   writes |-> <<w>> \o rest.writes, closed |-> rest.closed]

SendPass_Break(clients, payload, failing) == SendLoop_Break(clients, payload, failing)

SendPass(clients, payload, failing) == SendLoop(clients, payload, failing)

\* ShouldRedetect without "not test_file".
ShouldRedetect_AnyMode(test_file, location, clock, detected) ==
    location = None /\ clock - detected > REDETECT_AFTER

\* ShouldRedetect without "location is None".
ShouldRedetect_AnyLocation(test_file, location, clock, detected) ==
    ~Truthy(test_file) /\ clock - detected > REDETECT_AFTER

\* "not test_file and location is None and time.monotonic() - last_detect > 30"
ShouldRedetect(test_file, location, clock, detected) ==
    ~Truthy(test_file) /\ location = None /\ clock - detected > REDETECT_AFTER

\* "if location:" -- a location is a non-empty dict.
HasLocation(location) == location # None

Range(s) == {s[i] : i \in 1..Len(s)}

\* ------------------------------------------------------------------------
\* Inputs: what the library, the device and the network can answer
\* ------------------------------------------------------------------------

TypeError == Raise("TypeError")

\* Payloads the client library returns.
PayDish == Obj([latitude |-> Num(37819900), longitude |-> Num(-122478300),
                altitude |-> Num(12300000)])
PayGrpc == Dict([lat |-> Num(-33900000), lon |-> Num(18400000)])
PayStatus == Dict([gps_stats |-> Dict([lat |-> Num(51500000), lon |-> Num(-100000)])])
PayNoFix == Dict([state |-> Text("SEARCHING")])

\* Library operations: one that takes host as keyword, one that takes it
\* only positionally, one that takes no argument, one that returns a payload
\* without a location, one that raises, one whose every call is a TypeError.
FuncKw == [t |-> "func", kw |-> PayDish, pos |-> PayDish, noarg |-> PayDish]
FuncPos == [t |-> "func", kw |-> TypeError, pos |-> PayGrpc, noarg |-> TypeError]
FuncNoArg == [t |-> "func", kw |-> TypeError, pos |-> TypeError, noarg |-> PayStatus]
FuncNoFix == [t |-> "func", kw |-> PayNoFix, pos |-> PayNoFix, noarg |-> PayNoFix]
FuncRaises ==
    [t |-> "func", kw |-> Raise("GrpcError"), pos |-> Raise("GrpcError"),
     noarg |-> Raise("GrpcError")]
FuncTypeError == [t |-> "func", kw |-> TypeError, pos |-> TypeError, noarg |-> TypeError]

Funcs == {Absent, FuncKw, FuncPos, FuncNoArg, FuncNoFix, FuncRaises, FuncTypeError}

\* What one call of an operation can do: raise TypeError, raise another
\* exception, return a payload with or without a location.
Outcomes == {TypeError, Raise("GrpcError"), PayDish, PayNoFix}

\* The operations handed to _call_with_host: any outcome for each call shape.
CallFuncs == [t : {"func"}, kw : Outcomes, pos : Outcomes, noarg : Outcomes]

Libs ==
    [importable : BOOLEAN, dish_get_location : Funcs, grpc_get_location : Funcs,
     get_status : Funcs]

Response(ctype, body) == [t |-> "response", ctype |-> ctype, body |-> body]

Responses ==
    { Raise("URLError"),
      Response("application/json", DocLocation),
      Response("application/json; charset=utf-8", DocNoFix),
      Response("application/json", <<"{", "\"location\":">>),
      Response("text/html", <<"<html>", "<script>">> \o DocLocation \o <<"</script>">>),
      Response("text/html", <<"<html>", "<title>location</title>", "latitude unknown">>) }

Webs == [diag : Responses, root : Responses]

\* The pieces an HTML body is made of around its head and tail: the two
\* braces and the two members of the diagnostic document.
ScanPieces ==
    {"{", "}", "\"location\":",
     "\"latitude\":10.5,\"longitude\":20.25,\"altitudeMeters\":100"}

\* HTML bodies: "<html>", then any MaxPieces pieces or fewer, then nothing
\* or a closing brace and "</html>".
HtmlBodies ==
    {<<"<html>">> \o core \o tail :
        core \in UNION {[1..n -> ScanPieces] : n \in 0..MaxPieces},
        tail \in {<<>>, <<"}", "</html>">>}}

\* What GET / answers while GET /api/diagnostic answers an HTML body.
RootResponses ==
    { Raise("URLError"),
      Response("application/json", DocFlat),
      Response("text/html", <<"<html>", "{", "\"location\":", "{",
                  "\"latitude\":10.5,\"longitude\":20.25,\"altitudeMeters\":100",
                  "}">>) }

HtmlWebs == [diag : {Response("text/html", b) : b \in HtmlBodies}, root : RootResponses]

Addresses == {None, Text("10.0.0.5")}

\* What --dish-host and the environment variables can hold.
Settings == {None, Text(""), Text("10.0.0.5")}
EnvSettings(name) ==
    {None, Text(""), Text(IF name = "STARLINK_DISH_IP" THEN "10.1.1.1" ELSE "dish.lan")}

Envs ==
    {e \in [{"STARLINK_DISH_IP", "STARLINK_DISH_HOST"} ->
                {None, Text(""), Text("10.1.1.1"), Text("dish.lan")}] :
        \A n \in {"STARLINK_DISH_IP", "STARLINK_DISH_HOST"} : e[n] \in EnvSettings(n)}

DnsAnswers(name) ==
    {Raise("gaierror"), Text(IF name = "dish" THEN "192.168.1.1" ELSE "100.64.0.1")}

Dnss == {d \in [{"dish", "starlink"} -> {Raise("gaierror"), Text("192.168.1.1"),
                                         Text("100.64.0.1")}] :
            \A n \in {"dish", "starlink"} : d[n] \in DnsAnswers(n)}

Nets == [env : Envs, dns : Dnss, probe : BOOLEAN]

\* dt.datetime.utcnow()
Timestamps ==
    { [year |-> 2024, month |-> 1, day |-> 2, hour |-> 3, minute |-> 4, second |-> 5],
      [year |-> 2025, month |-> 12, day |-> 31, hour |-> 23, minute |-> 59, second |-> 59] }

\* Sentence bodies: every string of at most MaxBody characters of BodyChars.
BodyChars == {"\t", "$", "*", ",", "0", "A", "a", "~"}

Bodies == UNION {[1..n -> BodyChars] : n \in 0..MaxBody}

\* Latitudes and longitudes (millionths of a degree) and altitudes
\* (millionths of a metre, or None) handed to the encoder.  Among them are
\* decimals on a rounding tie of the field: 0.000125 and 89.999975 degrees
\* (0.0075 and 59.9985 minutes), 179.000025 degrees, 0.35 and -0.05 metres.
Latitudes ==
    {0, 125, 500000, 10500000, 10999991, 10999992, -33900000, 37819900,
     89999975, -89999999, 90 * Scale, -90 * Scale}

Longitudes ==
    {0, 20250000, -122478300, 5999995, 179000025, 179999990, -179999995,
     180 * Scale, -180 * Scale}

Altitudes == {None, Num(0), Num(100 * Scale), Num(-12340000), Num(350000),
              Num(-50000)}

\* The calls made on the encoder: each is the function and its arguments.
EncoderCalls ==
    [fn : {"nmea_checksum"}, body : Bodies]
    \cup [fn : {"format_lat_lon"}, value : Latitudes, is_lat : {TRUE}]
    \cup [fn : {"format_lat_lon"}, value : Longitudes, is_lat : {FALSE}]
    \cup [fn : {"build"}, ts_utc : Timestamps, lat : Latitudes, lon : Longitudes,
          alt_m : Altitudes]

\* How a latitude of v millionths can sit in a container: missing, under
\* the first or the second spelling, as a numeric string, under the second
\* spelling behind a null or a non-numeric string under the first, as a value
\* float() refuses (a list), as an int too large for a float.
LatParts(v) ==
    { NoItems,
      "lat" :> Num(v),
      "latitude" :> Str(TRUE, v),
      ("lat" :> None) @@ ("latitude" :> Num(v)),
      ("lat" :> Str(FALSE, 0)) @@ ("latitude" :> Num(v)),
      "lat" :> List(1),
      "lat" :> Big }

LonParts(v) ==
    { NoItems,
      "lon" :> Num(v),
      "longitude" :> Str(TRUE, v),
      ("lon" :> None) @@ ("longitude" :> Num(v)) }

AltParts(v) ==
    { NoItems,
      "altitudeMeters" :> Num(v),
      ("alt" :> None) @@ ("altitude_m" :> Num(v)) }

\* The coordinate fields of one container, around the latitude la, the
\* longitude lo and the altitude al.
Fields(la, lo, al) ==
    {x @@ y @@ z : x \in LatParts(la), y \in LonParts(lo), z \in AltParts(al)}

\* The nested containers met under the keys first and second: a dict or an
\* object with both coordinates, one with the latitude only, one whose
\* latitude sits behind a null, an empty dict; none; the same under the
\* second key alone, or behind a null or an empty dict under the first.
Nested(first, second, la, lo) ==
    LET both  == ("lat" :> Num(la)) @@ ("lon" :> Num(lo))
        named == ("latitude" :> Num(la)) @@ ("longitude" :> Num(lo))
                    @@ ("altitudeMeters" :> Num(100 * Scale))
    IN  { NoItems,
          first :> Dict(both),
          first :> Obj(named),
          first :> Dict("lat" :> Num(la)),
          first :> Dict(("lat" :> None) @@ named),
          first :> Dict(NoItems),
          second :> Dict(named),
          (first :> None) @@ (second :> Dict(both)),
          (first :> Dict(NoItems)) @@ (second :> Dict(both)) }

\* The payloads handed to _extract_location: dicts with coordinate fields at
\* the top level (around 37.8199, -122.4783), under gps_stats / gpsStats
\* (around 51.5, -0.1) and under location / position (around 10.5, 20.25),
\* and values that are no dict.
ExtractPayloads ==
    { Dict(top @@ gps @@ loc) :
        top \in Fields(37819900, -122478300, 12300000),
        gps \in Nested("gps_stats", "gpsStats", 51500000, -100000),
        loc \in Nested("location", "position", 10500000, 20250000) }
    \cup { None, List(2), Num(5 * Scale), Text("no fix"),
           Obj(("latitude" :> Num(37819900)) @@ ("longitude" :> Num(-122478300))),
           JsonLoads(DocLocation), JsonLoads(DocFlat), JsonLoads(DocNoFix) }

\* ------------------------------------------------------------------------
\* State
\* ------------------------------------------------------------------------

VARIABLES
    fpc,            \* the function harness: "off", "ready", "done", "encoded"
    args,           \* the arguments and environment of the function called
    ret,            \* what the function returned
    pc,             \* the loop: "off", "start", "resolve", "accept",
                    \* "acquire", "redetect", "deliver", "sleep", "failed",
                    \* "aborted"
    mode,           \* "tcp" (serve_tcp) or "udp" (serve_udp)
    test_file,      \* --test-file: None or a path
    dish_host,      \* --dish-host: None or an address
    interval_s,     \* --interval
    now,            \* time.monotonic(), in seconds
    resolved_host,  \* the cached device address
    last_detect,    \* the clock when the address was last resolved
    clients,        \* serve_tcp: the list of connected sockets
    pending,        \* connections waiting on the listening socket
    nextId,         \* the next connection to be made
    location,       \* the location acquired in this cycle
    ts,             \* dt.datetime.utcnow() of this cycle
    payload,        \* the bytes encoded in this cycle
    cycle           \* what this cycle did (history)

vars == <<fpc, args, ret, pc, mode, test_file, dish_host, interval_s, now,
          resolved_host, last_detect, clients, pending, nextId, location, ts,
          payload, cycle>>

loopVars == <<pc, mode, test_file, dish_host, interval_s, now, resolved_host,
              last_detect, clients, pending, nextId, location, ts, payload,
              cycle>>

fnVars == <<fpc, args, ret>>

NoTs == [t |-> "none"]

\* The history of a cycle that starts with the address host, resolved at
\* detect, and the sockets closed in earlier cycles: nothing accepted,
\* acquired, resolved, written or closed yet, no function called, no file
\* read.  pending0 is what waits on the listening socket as the cycle starts.
NewCycle(host, detect, evicted) ==
    [host0 |-> host, detect0 |-> detect, pending0 |-> <<>>,
     accepted |-> <<>>, listed |-> <<>>,
     acquired |-> FALSE, redetected |-> FALSE, before |-> <<>>, failing |-> {},
     writes |-> <<>>, closed |-> <<>>, datagrams |-> <<>>, evicted |-> evicted,
     calls |-> <<>>, file |-> None]

LoopOff ==
    /\ pc = "off" /\ mode = "tcp" /\ test_file = None /\ dish_host = None
    /\ interval_s = 0 /\ now = 0 /\ resolved_host = None /\ last_detect = 0
    /\ clients = <<>> /\ pending = <<>> /\ nextId = 1 /\ location = None
    /\ ts = NoTs /\ payload = <<>> /\ cycle = NewCycle(None, 0, {})

FnOff == fpc = "off" /\ args = None /\ ret = None

\* ------------------------------------------------------------------------
\* The function harness: one call of a function on drawn arguments
\* ------------------------------------------------------------------------

InitAcq ==
    /\ LoopOff
    /\ fpc = "ready"
    /\ args \in [host : Addresses, lib : Libs, web : Webs]
    /\ ret = None

CallGetLocation ==
    /\ fpc = "ready"
    /\ ret' = get_starlink_location(args.host, args.lib, args.web)
    /\ fpc' = "done"
    /\ UNCHANGED <<args, loopVars>>

SpecAcq == InitAcq /\ [][CallGetLocation]_vars

InitDetect ==
    /\ LoopOff
    /\ fpc = "ready"
    /\ args \in [explicit : Settings, net : Nets]
    /\ ret = None

CallDetect ==
    /\ fpc = "ready"
    /\ ret' = detect_dish_host(args.explicit, args.net)
    /\ fpc' = "done"
    /\ UNCHANGED <<args, loopVars>>

SpecDetect == InitDetect /\ [][CallDetect]_vars

\* _call_with_host on a drawn operation and address.
InitCall ==
    /\ LoopOff
    /\ fpc = "ready"
    /\ args \in [func : CallFuncs, host : Settings]
    /\ ret = None

CallWithHost ==
    /\ fpc = "ready"
    /\ ret' = _call_with_host(args.func, args.host)
    /\ fpc' = "done"
    /\ UNCHANGED <<args, loopVars>>

SpecCall == InitCall /\ [][CallWithHost]_vars

\* get_starlink_location_http on a resolved address and a drawn device.
InitHttp ==
    /\ LoopOff
    /\ fpc = "ready"
    /\ args \in [host : {Text("10.0.0.5")}, web : HtmlWebs]
    /\ ret = None

CallHttp ==
    /\ fpc = "ready"
    /\ ret' = get_starlink_location_http(args.host, args.web)
    /\ fpc' = "done"
    /\ UNCHANGED <<args, loopVars>>

SpecHttp == InitHttp /\ [][CallHttp]_vars

\* The encoder functions, each called on drawn arguments.
InitEncode ==
    /\ LoopOff
    /\ fpc = "ready"
    /\ args \in EncoderCalls
    /\ ret = None

CallChecksum ==
    /\ fpc = "ready"
    /\ args.fn = "nmea_checksum"
    /\ ret' = [fn |-> "nmea_checksum", v |-> nmea_checksum(args.body)]
    /\ fpc' = "done"
    /\ UNCHANGED <<args, loopVars>>

CallFormat ==
    /\ fpc = "ready"
    /\ args.fn = "format_lat_lon"
    /\ ret' = [fn |-> "format_lat_lon", v |-> format_lat_lon(args.value, args.is_lat)]
    /\ fpc' = "done"
    /\ UNCHANGED <<args, loopVars>>

CallBuildRmc ==
    /\ fpc = "ready"
    /\ args.fn = "build"
    /\ ret' = [fn |-> "build_rmc", v |-> build_rmc(args.ts_utc, args.lat, args.lon)]
    /\ fpc' = "done"
    /\ UNCHANGED <<args, loopVars>>

CallBuildGga ==
    /\ fpc = "ready"
    /\ args.fn = "build"
    /\ ret' = [fn |-> "build_gga",
               v |-> build_gga(args.ts_utc, args.lat, args.lon, args.alt_m)]
    /\ fpc' = "done"
    /\ UNCHANGED <<args, loopVars>>

NextEncode == CallChecksum \/ CallFormat \/ CallBuildRmc \/ CallBuildGga

SpecEncode == InitEncode /\ [][NextEncode]_vars

\* _extract_location on a drawn payload, then, as in the loops (lines
\* 292-295), the two sentences built from the location it gave.
InitExtract ==
    /\ LoopOff
    /\ fpc = "ready"
    /\ args \in [payload : ExtractPayloads]
    /\ ret = None

CallExtract ==
    /\ fpc = "ready"
    /\ ret' = _extract_location(args.payload)
    /\ fpc' = "done"
    /\ UNCHANGED <<args, loopVars>>

CallEncode(t) ==
    /\ fpc = "done"
    /\ ret.t = "loc"
    /\ ret' = [t |-> "sentences", loc |-> ret, ts |-> t,
               rmc |-> build_rmc(t, ret.lat, ret.lon),
               gga |-> build_gga(t, ret.lat, ret.lon, Num(ret.alt))]
    /\ fpc' = "encoded"
    /\ UNCHANGED <<args, loopVars>>

NextExtract ==
    \/ CallExtract
    \/ \E t \in Timestamps : CallEncode(t)

SpecExtract == InitExtract /\ [][NextExtract]_vars

\* ------------------------------------------------------------------------
\* The distribution loops
\* ------------------------------------------------------------------------

Intervals == {10, 15}

\* By how many seconds the clock read in a cycle can be later than the
\* clock of the cycle before plus interval_s, for the sleep and the
\* delivery alone: not at all (a clock that has not ticked since), or by
\* some time (here one second).
Lateness == {0, 1}

\* How long an acquisition takes, in seconds: no time the clock shows, the
\* two 5 s timeouts of the HTTP requests, a call that stays longer than the
\* 30 s of the re-resolution test.
AcquireTimes == {0, 10, 31}

\* How long a re-resolution takes (two lookups and a probe), in seconds.
DetectTimes == {0, 1}

\* The networks, libraries, devices and test files the loops meet.
NoEnv == [n \in {"STARLINK_DISH_IP", "STARLINK_DISH_HOST"} |-> None]
NoDns == [n \in {"dish", "starlink"} |-> Raise("gaierror")]

LoopNets ==
    { [env |-> NoEnv, dns |-> NoDns, probe |-> FALSE],
      [env |-> NoEnv, dns |-> NoDns, probe |-> TRUE],
      [env |-> NoEnv, dns |-> [NoDns EXCEPT !["dish"] = Text("192.168.1.1")],
       probe |-> FALSE] }

LibWith(f) ==
    [importable |-> TRUE, dish_get_location |-> f, grpc_get_location |-> Absent,
     get_status |-> Absent]

Down == Raise("URLError")

LoopSources ==
    { [lib |-> LibWith(FuncKw), web |-> [diag |-> Down, root |-> Down]],
      [lib |-> LibWith(FuncRaises),
       web |-> [diag |-> Response("application/json", DocLocation), root |-> Down]],
      [lib |-> LibWith(FuncRaises), web |-> [diag |-> Down, root |-> Down]],
      [lib |-> LibWith(FuncNoFix), web |-> [diag |-> Down, root |-> Down]] }

File(body) == [t |-> "file", body |-> body]

LoopFiles == {Raise("FileNotFoundError"), File(<<"{", "oops">>), File(DocLocation),
              File(DocNoFix), File(DocBig)}

Init ==
    /\ FnOff
    /\ pc = "start"
    /\ mode \in {"tcp", "udp"}
    /\ test_file \in {None, Text("fix.json")}
    /\ dish_host \in {None, Text("10.0.0.5")}
    /\ interval_s \in Intervals
    /\ now = 0
    /\ resolved_host = None
    /\ last_detect = 0
    /\ clients = <<>>
    /\ pending = <<>>
    /\ nextId = 1
    /\ location = None
    /\ ts = NoTs
    /\ payload = <<>>
    /\ cycle = NewCycle(None, 0, {})

FirstPhase == IF mode = "tcp" THEN "accept" ELSE "acquire"

\* serve_tcp lines 258-262, serve_udp lines 330-332: the socket is set up
\* (socketOk is whether socket/bind/listen succeed); serve_tcp listens from
\* here on.
Listen(socketOk) ==
    /\ pc = "start"
    /\ pc' = IF socketOk THEN "resolve" ELSE "failed"
    /\ UNCHANGED <<fnVars, mode, test_file, dish_host, interval_s, now,
                   resolved_host, last_detect, clients, pending, nextId,
                   location, ts, payload, cycle>>

\* serve_tcp lines 269-270, serve_udp lines 337-338: the address is resolved
\* unless a test file is given, then the clock is read into last_detect (the
\* clock counts from that reading) and the first cycle starts.
Startup(net) ==
    /\ pc = "resolve"
    /\ LET host == IF Truthy(test_file) THEN None
                   ELSE detect_dish_host(dish_host, net).ret
       IN  /\ resolved_host' = host
           /\ last_detect' = now
           /\ cycle' = [NewCycle(host, now, {}) EXCEPT
                           !.pending0 = pending,
                           !.calls = IF Truthy(test_file) THEN <<>>
                                     ELSE <<"detect_dish_host">>]
           /\ pc' = FirstPhase
    /\ UNCHANGED <<fnVars, mode, test_file, dish_host, interval_s, now, clients,
                   pending, nextId, location, ts, payload>>

\* A peer connects to the listening socket.
Connect ==
    /\ mode = "tcp"
    /\ pc \in {"resolve", "accept", "acquire", "redetect", "deliver", "sleep"}
    /\ nextId <= MaxClients
    /\ pending' = Append(pending, nextId)
    /\ nextId' = nextId + 1
    /\ UNCHANGED <<fnVars, pc, mode, test_file, dish_host, interval_s, now,
                   resolved_host, last_detect, clients, location, ts, payload,
                   cycle>>

\* The accept pass with one accept() per cycle instead of the inner loop.
Accept_Once ==
    /\ pc = "accept"
    /\ IF pending # <<>>
       THEN /\ clients' = Append(clients, Head(pending))
            /\ pending' = Tail(pending)
            /\ cycle' = [cycle EXCEPT !.accepted = Append(@, Head(pending)),
                                      !.listed = Append(clients, Head(pending))]
       ELSE /\ cycle' = [cycle EXCEPT !.listed = clients]
            /\ UNCHANGED <<clients, pending>>
    /\ pc' = "acquire"
    /\ UNCHANGED <<fnVars, mode, test_file, dish_host, interval_s, now,
                   resolved_host, last_detect, nextId, location, ts, payload>>

\* One turn of the accept loop: server.accept() on the non-blocking
\* listening socket returns the oldest pending connection, which is appended
\* to clients, or raises BlockingIOError when none is pending, which ends
\* the pass.
Accept ==
    /\ pc = "accept"
    /\ IF pending # <<>>
       THEN /\ clients' = Append(clients, Head(pending))
            /\ pending' = Tail(pending)
            /\ cycle' = [cycle EXCEPT !.accepted = Append(@, Head(pending))]
            /\ pc' = "accept"
       ELSE /\ cycle' = [cycle EXCEPT !.listed = clients]
            /\ pc' = "acquire"
            /\ UNCHANGED <<clients, pending>>
    /\ UNCHANGED <<fnVars, mode, test_file, dish_host, interval_s, now,
                   resolved_host, last_detect, nextId, location, ts, payload>>

\* The acquisition of the cycle, from the test file or from the device; it
\* takes took seconds, which the clock read after it shows.
Acquire(src, file, took) ==
    /\ pc = "acquire"
    /\ now + took <= MaxTime
    /\ now' = now + took
    /\ location' = IF Truthy(test_file)
                   THEN get_starlink_location_from_file(file)
                   ELSE get_starlink_location(resolved_host, src.lib, src.web).ret
    /\ cycle' = [cycle EXCEPT
                    !.acquired = TRUE,
                    !.calls = Append(@, IF Truthy(test_file)
                                        THEN "get_starlink_location_from_file"
                                        ELSE "get_starlink_location"),
                    !.file = IF Truthy(test_file) THEN file ELSE None]
    /\ pc' = "redetect"
    /\ UNCHANGED <<fnVars, mode, test_file, dish_host, interval_s,
                   resolved_host, last_detect, clients, pending, nextId, ts,
                   payload>>

\* The re-resolution of the address after a failed acquisition: the test
\* reads the clock; detect_dish_host takes took seconds and last_detect is
\* the clock read after it.
Redetect(net, took) ==
    /\ pc = "redetect"
    /\ IF ShouldRedetect(test_file, location, now, last_detect)
       THEN /\ now + took <= MaxTime
            /\ now' = now + took
            /\ resolved_host' = detect_dish_host(dish_host, net).ret
            /\ last_detect' = now'
            /\ cycle' = [cycle EXCEPT !.redetected = TRUE,
                                      !.calls = Append(@, "detect_dish_host")]
       ELSE UNCHANGED <<now, resolved_host, last_detect, cycle>>
    /\ pc' = "deliver"
    /\ UNCHANGED <<fnVars, mode, test_file, dish_host, interval_s, clients,
                   pending, nextId, location, ts, payload>>

NoOutput(cl) ==
    [alive |-> cl, writes |-> <<>>, closed |-> <<>>, datagrams |-> <<>>,
     raised |-> FALSE]

\* Outputs without the "if location:" test: the delivery runs every cycle.
Outputs_Unguarded(m, loc, data, cl, failing, sendOk) ==
    IF m = "tcp"
    THEN LET r == SendPass(cl, data, failing)
         IN  [NoOutput(r.alive) EXCEPT !.writes = r.writes, !.closed = r.closed]
    ELSE [NoOutput(cl) EXCEPT
            !.datagrams = <<[data |-> data, sent |-> sendOk]>>,
            !.raised = ~sendOk]

\* The delivery of the "if location:" block: for serve_tcp the send pass,
\* for serve_udp one sendto, which raises OSError unless sendOk.
Outputs(m, loc, data, cl, failing, sendOk) ==
    IF HasLocation(loc)
    THEN IF m = "tcp"
         THEN LET r == SendPass(cl, data, failing)
              IN  [NoOutput(r.alive) EXCEPT !.writes = r.writes, !.closed = r.closed]
         ELSE [NoOutput(cl) EXCEPT
                 !.datagrams = <<[data |-> data, sent |-> sendOk]>>,
                 !.raised = ~sendOk]
    ELSE NoOutput(cl)

\* The encoding and delivery of the cycle: with a location, the timestamp t
\* is taken and the payload encoded, then delivered; sendall fails for the
\* clients in failing, sendto succeeds when sendOk.  An exception that
\* leaves the block leaves the loop and the process.
Deliver(t) ==
    /\ pc = "deliver"
    /\ ts' = IF HasLocation(location) THEN t ELSE NoTs
    /\ payload' = IF HasLocation(location) THEN Payload(t, location) ELSE <<>>
    /\ \E failing \in SUBSET (IF mode = "tcp" /\ HasLocation(location)
                              THEN Range(clients) ELSE {}),
          sendOk \in BOOLEAN :
          /\ sendOk \/ (mode = "udp" /\ HasLocation(location))
          /\ LET out == Outputs(mode, location, payload', clients, failing, sendOk)
             IN  /\ clients' = out.alive
                 /\ cycle' = [cycle EXCEPT !.before = clients, !.failing = failing,
                                           !.writes = out.writes,
                                           !.closed = out.closed,
                                           !.datagrams = out.datagrams]
                 /\ pc' = IF out.raised THEN "aborted" ELSE "sleep"
    /\ UNCHANGED <<fnVars, mode, test_file, dish_host, interval_s, now,
                   resolved_host, last_detect, pending, nextId, location>>

\* time.sleep(interval_s), then the next cycle begins.  The sleep lasts at
\* least interval_s and the cycle itself takes time: the clock the next cycle
\* reads is interval_s later, or later than that by late.
Sleep(late) ==
    /\ pc = "sleep"
    /\ now + interval_s + late <= MaxTime
    /\ now' = now + interval_s + late
    /\ cycle' = [NewCycle(resolved_host, last_detect,
                          cycle.evicted \cup Range(cycle.closed))
                    EXCEPT !.pending0 = pending]
    /\ location' = None
    /\ ts' = NoTs
    /\ payload' = <<>>
    /\ pc' = FirstPhase
    /\ UNCHANGED <<fnVars, mode, test_file, dish_host, interval_s,
                   resolved_host, last_detect, clients, pending, nextId>>

Next ==
    \/ \E socketOk \in BOOLEAN : Listen(socketOk)
    \/ \E net \in LoopNets : Startup(net)
    \/ Connect
    \/ Accept
    \/ \E src \in LoopSources, file \in LoopFiles, took \in AcquireTimes :
          Acquire(src, file, took)
    \/ \E net \in LoopNets, took \in DetectTimes : Redetect(net, took)
    \/ \E t \in Timestamps : Deliver(t)
    \/ \E late \in Lateness : Sleep(late)

Spec == Init /\ [][Next]_vars

\* ------------------------------------------------------------------------
\* Properties of get_starlink_location (under SpecAcq)
\* ------------------------------------------------------------------------

Called(trace, name) ==
    \E i \in 1..Len(trace) : trace[i].op = "call" /\ trace[i].name = name

Requested(trace, path) ==
    \E i \in 1..Len(trace) : trace[i].op = "GET" /\ trace[i].path = path

\* The library operation raises when called for the address host.
Raises(func, host) == func.t # "absent" /\ _call_with_host(func, host).ret.t = "raise"

\* The coordinate a library operation yields for the address host: None when
\* it does not exist, raises, or returns a payload without a coordinate.
Yield(func, host) ==
    IF func.t = "absent" \/ Raises(func, host) THEN None
    ELSE _extract_location(_call_with_host(func, host).ret)

\* The coordinates of the four strategies, in their order.
Yields(a) ==
    <<Yield(a.lib.dish_get_location, a.host), Yield(a.lib.grpc_get_location, a.host),
      Yield(a.lib.get_status, a.host), get_starlink_location_http(a.host, a.web).ret>>

\* The first entry of a sequence of values that is not None; None without one.
FirstNotNone(seq) ==
    IF \E i \in 1..Len(seq) : seq[i] # None
    THEN seq[CHOOSE i \in 1..Len(seq) :
                seq[i] # None /\ \A j \in 1..(i - 1) : seq[j] = None]
    ELSE None

\* C1: with the library importable, get_starlink_location returns the
\* coordinate of the first strategy, in the order dish.get_location,
\* grpc.get_location, get_status, HTTP fallback, that yields a coordinate;
\* a strategy that returns without a coordinate does not stop the later ones.
C1_FirstNonEmptyWins ==
    (fpc = "done" /\ args.lib.importable) => ret.ret = FirstNotNone(Yields(args))

\* C2: when the import of the library fails and the address is resolved,
\* the HTTP fallback is attempted and its result returned.
C2_ImportFailureFallsBackToHttp ==
    (fpc = "done" /\ ~args.lib.importable /\ Truthy(args.host)) =>
        /\ Requested(ret.trace, "/api/diagnostic")
        /\ ret.ret = get_starlink_location_http(args.host, args.web).ret

\* C3: get_starlink_location returns a coordinate or None and never lets an
\* exception out; a strategy that raises is followed by the next strategy
\* that exists and, after the last one, by the HTTP fallback; with an
\* unresolved address the fallback makes no request and yields None.
C3_NeverRaises ==
    fpc = "done" =>
        LET lib   == args.lib
            host  == args.host
            tr    == ret.trace
            \* strategy i does not exist, or raises
            pass1 == lib.dish_get_location.t = "absent" \/ Raises(lib.dish_get_location, host)
            pass2 == lib.grpc_get_location.t = "absent" \/ Raises(lib.grpc_get_location, host)
            pass3 == lib.get_status.t = "absent" \/ Raises(lib.get_status, host)
        IN  /\ ret.ret.t \in {"loc", "none"}
            /\ lib.importable =>
                  /\ lib.dish_get_location.t # "absent" => Called(tr, "dish.get_location")
                  /\ (pass1 /\ lib.grpc_get_location.t # "absent")
                        => Called(tr, "grpc.get_location")
                  /\ (pass1 /\ pass2 /\ lib.get_status.t # "absent")
                        => Called(tr, "get_status")
                  /\ (pass1 /\ pass2 /\ pass3) =>
                        /\ Truthy(host) => Requested(tr, "/api/diagnostic")
                        /\ ret.ret = get_starlink_location_http(host, args.web).ret
            /\ ~Truthy(host) =>
                  /\ \A i \in 1..Len(tr) : tr[i].op # "GET"
                  /\ get_starlink_location_http(host, args.web).ret = None

\* The three library strategies raise one after the other, the first HTTP
\* path raises too, and the second path gives the coordinate returned.
C3_Witness ==
    /\ fpc = "done"
    /\ args.host = Text("10.0.0.5")
    /\ args.lib = [importable |-> TRUE, dish_get_location |-> FuncRaises,
                   grpc_get_location |-> FuncTypeError, get_status |-> FuncRaises]
    /\ args.web.diag = Raise("URLError")
    /\ args.web.root = Response("application/json", DocLocation)
    /\ ret.ret.t = "loc"
    /\ Called(ret.trace, "get_status")
    /\ Requested(ret.trace, "/")

\* ------------------------------------------------------------------------
\* Properties of detect_dish_host (under SpecDetect)
\* ------------------------------------------------------------------------

Looked(trace, name) ==
    \E i \in 1..Len(trace) : trace[i].op = "gethostbyname" /\ trace[i].name = name

Probed(trace) == \E i \in 1..Len(trace) : trace[i].op = "connect"

\* What a lookup gives as a step of the resolution: the address, or None.
Resolved(answer) == IF answer.t = "raise" \/ ~Truthy(answer) THEN None ELSE answer

\* What each step of the resolution gives, in the order of precedence.
Steps(a) ==
    <<IF Truthy(a.explicit) THEN a.explicit ELSE None,
      IF Truthy(a.net.env["STARLINK_DISH_IP"]) THEN a.net.env["STARLINK_DISH_IP"] ELSE None,
      IF Truthy(a.net.env["STARLINK_DISH_HOST"]) THEN a.net.env["STARLINK_DISH_HOST"] ELSE None,
      Resolved(a.net.dns["dish"]),
      Resolved(a.net.dns["starlink"]),
      IF a.net.probe THEN Text("192.168.100.1") ELSE None>>

\* C4: detect_dish_host returns the result of the first step that succeeds in
\* the order override, STARLINK_DISH_IP, STARLINK_DISH_HOST, lookup of
\* "dish", lookup of "starlink", probed default address, and None when none
\* does; a lookup or the probe is made only if every earlier step failed,
\* and with an override no lookup and no probe is made.
C4_Precedence ==
    fpc = "done" =>
        LET st == Steps(args)
            tr == ret.trace
            failed(n) == \A j \in 1..n : st[j] = None
        IN  /\ ret.ret = FirstNotNone(st)
            /\ Looked(tr, "dish") <=> failed(3)
            /\ Looked(tr, "starlink") <=> failed(4)
            /\ Probed(tr) <=> failed(5)
            /\ Truthy(args.explicit) => tr = <<>>
            /\ \A i \in 1..Len(tr) :
                  tr[i].op = "connect" => (tr[i].host = "192.168.100.1" /\ tr[i].port = 9200)

\* No override, STARLINK_DISH_IP set but empty, STARLINK_DISH_HOST set: its
\* value is returned although both lookups and the probe would succeed.
C4_Witness ==
    /\ fpc = "done"
    /\ args.explicit = None
    /\ args.net.env["STARLINK_DISH_IP"] = Text("")
    /\ args.net.env["STARLINK_DISH_HOST"] = Text("dish.lan")
    /\ args.net.dns["dish"] = Text("192.168.1.1")
    /\ args.net.probe
    /\ ret.ret = Text("dish.lan")
    /\ ret.trace = <<>>

\* ------------------------------------------------------------------------
\* Properties of the distribution loops (under Spec)
\* ------------------------------------------------------------------------

Live == ~Truthy(test_file)

\* The cycle has passed its delivery.
Delivered == pc \in {"sleep", "aborted"}

\* The number of sendall calls of this cycle on the socket c.
WritesTo(c) == Cardinality({i \in 1..Len(cycle.writes) : cycle.writes[i].client = c})

\* s without the entries in the set gone, in the order of s.
Without(s, gone) == SelectSeq(s, LAMBDA c : c \notin gone)

\* C5: in a serve_tcp cycle that delivers a payload, every client whose
\* write fails is closed and removed in that pass, wherever it sits in the
\* list; every other client is written the payload once and stays, in the
\* same relative order; a client removed earlier is never written again.
C5_Eviction ==
    (pc = "sleep" /\ mode = "tcp" /\ HasLocation(location)) =>
        LET before == cycle.before
            failed == cycle.failing \cap Range(before)
        IN  /\ Range(cycle.closed) = failed
            /\ Range(clients) \cap failed = {}
            /\ clients = Without(before, failed)
            /\ \A c \in Range(before) : WritesTo(c) = 1
            /\ \A i \in 1..Len(cycle.writes) :
                  /\ cycle.writes[i].data = payload
                  /\ cycle.writes[i].client \notin cycle.evicted
            /\ Range(clients) \cap cycle.evicted = {}
            /\ Len(payload) > 0

\* Three clients are connected and the write to the middle one fails: the
\* first and the third stay, in that order.
C5_Witness ==
    /\ pc = "sleep" /\ mode = "tcp" /\ HasLocation(location)
    /\ cycle.before = <<1, 2, 3>>
    /\ cycle.failing = {2}
    /\ clients = <<1, 3>>
    /\ Len(cycle.writes) = 3

\* C6: once the socket is set up, no failure in a cycle (acquisition, a
\* write to a TCP client, the UDP send) takes the process out of the loop.
C6_LoopNeverAborts == pc # "aborted"

\* C7: a cycle that acquires no coordinate writes to no client, sends no
\* datagram, closes and removes no client, encodes nothing, and reaches the
\* sleep.
C7_NoCoordinateNoOutput ==
    (Delivered /\ ~HasLocation(location)) =>
        /\ pc = "sleep"
        /\ cycle.writes = <<>>
        /\ cycle.datagrams = <<>>
        /\ cycle.closed = <<>>
        /\ clients = cycle.listed
        /\ payload = <<>>

\* A serve_tcp cycle with two clients connected acquires nothing.
C7_Witness ==
    /\ pc = "sleep" /\ mode = "tcp" /\ cycle.acquired /\ ~HasLocation(location)
    /\ Len(clients) >= 2

\* The sentence of a payload that starts at index i: up to the CR before the
\* next LF.
SentenceAt(data, i) ==
    LET j == CHOOSE k \in i..Len(data) :
                data[k] = "\r" /\ \A m \in i..(k - 1) : data[m] # "\r"
    IN  SubSeq(data, i, j - 1)

\* C8: in a cycle that acquires a coordinate, every client of serve_tcp is
\* sent one payload, and serve_udp sends one datagram, made of the RMC
\* sentence, CRLF, the GGA sentence, CRLF, both built from the location and
\* the one timestamp of the cycle.
C8_OnePayloadPerCycle ==
    (Delivered /\ HasLocation(location)) =>
        /\ ts \in Timestamps
        /\ \E rmc \in {build_rmc(ts, location.lat, location.lon)},
              gga \in {build_gga(ts, location.lat, location.lon, Num(location.alt))},
              sent \in {IF mode = "tcp"
                        THEN [i \in 1..Len(cycle.writes) |-> cycle.writes[i].data]
                        ELSE [i \in 1..Len(cycle.datagrams) |-> cycle.datagrams[i].data]} :
            /\ mode = "tcp" =>
                  /\ Len(cycle.writes) = Len(cycle.before)
                  /\ \A i \in 1..Len(cycle.before) :
                        cycle.writes[i].client = cycle.before[i]
                  /\ cycle.datagrams = <<>>
            /\ mode = "udp" => (Len(cycle.datagrams) = 1 /\ cycle.writes = <<>>)
            /\ \A i \in 1..Len(sent) : sent[i] = sent[1]
            /\ \A data \in {sent[i] : i \in 1..Len(sent)} :
                  /\ Len(data) = Len(rmc) + Len(gga) + 4
                  /\ SentenceAt(data, 1) = rmc
                  /\ SubSeq(data, Len(rmc) + 1, Len(rmc) + 2) = <<"\r", "\n">>
                  /\ SentenceAt(data, Len(rmc) + 3) = gga
                  /\ SubSeq(data, Len(data) - 1, Len(data)) = <<"\r", "\n">>
                  /\ SubSeq(rmc, 1, 6) = <<"$", "G", "P", "R", "M", "C">>
                  /\ SubSeq(gga, 1, 6) = <<"$", "G", "P", "G", "G", "A">>
                  /\ SubSeq(rmc, 8, 13) = SubSeq(gga, 8, 13)

\* A serve_tcp cycle writes the payload to two clients or more.
C8_Witness ==
    /\ pc = "sleep" /\ mode = "tcp" /\ HasLocation(location)
    /\ Len(cycle.writes) >= 2
    /\ Len(payload) > 100

\* C9: in live mode the address is not resolved again in a cycle whose
\* acquisition succeeded, nor in one that starts its check less than 30
\* seconds after the last resolution: the cached address and the time of the
\* last resolution stay as they were; the time is set exactly when a
\* resolution is made.
C9_NoRedetect ==
    (Live /\ pc \notin {"off", "start", "resolve", "failed"}) =>
        LET elapsed == now - cycle.detect0
        IN  /\ pc \in {"accept", "acquire", "redetect"} => ~cycle.redetected
            /\ (pc \in {"deliver", "sleep", "aborted"}
                  /\ (HasLocation(location) \/ elapsed < 30)) => ~cycle.redetected
            /\ ~cycle.redetected =>
                  (resolved_host = cycle.host0 /\ last_detect = cycle.detect0)
            /\ cycle.redetected => last_detect = now

\* A live cycle acquires a coordinate more than 30 seconds after the last
\* resolution, and resolves nothing.
C9_Witness ==
    /\ Live /\ pc = "sleep" /\ HasLocation(location)
    /\ now - cycle.detect0 > 30
    /\ ~cycle.redetected /\ last_detect = cycle.detect0

\* C10: in live mode a cycle whose acquisition failed at least 30 seconds
\* (30 included) after the last resolution resolves the address again
\* before its delivery and sleep.
C10_RedetectFromThirty ==
    (Live /\ pc \in {"deliver", "sleep"} /\ ~HasLocation(location)
       /\ now - cycle.detect0 >= 30) =>
        (cycle.redetected /\ last_detect = now)

\* ------------------------------------------------------------------------
\* Properties of _extract_location (under SpecExtract)
\* ------------------------------------------------------------------------

\* The container has an item (a dict) or an attribute (an object) of this name.
Has(obj, name) == obj.t \in {"dict", "obj"} /\ name \in DOMAIN obj.d

\* A value that coerces to a number: a number or a numeric string.
Numeric(v) == v.t = "num" \/ (v.t = "str" /\ v.ok)

\* The container holds a numeric value under one of the names at least.
AnyNumeric(obj, names) ==
    \E i \in 1..Len(names) : Has(obj, names[i]) /\ Numeric(obj.d[names[i]])

\* The place yields a latitude and a longitude, each under either spelling.
PlaceYields(obj) ==
    AnyNumeric(obj, <<"lat", "latitude">>) /\ AnyNumeric(obj, <<"lon", "longitude">>)

\* The number the container holds under the first of the names whose value
\* is numeric.
NumericAt(obj, names) ==
    obj.d[names[CHOOSE i \in 1..Len(names) :
                  /\ Has(obj, names[i]) /\ Numeric(obj.d[names[i]])
                  /\ \A j \in 1..(i - 1) :
                        ~(Has(obj, names[j]) /\ Numeric(obj.d[names[j]]))]].v

\* What the payload holds under the key, as a sequence of one place at most.
PlaceUnder(doc, key) == IF Has(doc, key) THEN <<doc.d[key]>> ELSE <<>>

\* The places of a payload in the order they are searched: the top level,
\* the object under gps_stats / gpsStats, the object under location /
\* position.
OrderedPlaces(doc) ==
    <<doc>> \o PlaceUnder(doc, "gps_stats") \o PlaceUnder(doc, "gpsStats")
            \o PlaceUnder(doc, "location") \o PlaceUnder(doc, "position")

\* C11: _extract_location returns the coordinate of the first of the three
\* places, in the order top level, gps_stats / gpsStats, location /
\* position, that has both a numeric-coercible latitude and a
\* numeric-coercible longitude, and no coordinate when none has: top-level
\* values win over a nested object, and gps_stats wins over location.
C11_FirstLocationWins ==
    fpc = "done" =>
        LET yielding == SelectSeq(OrderedPlaces(args.payload), PlaceYields)
        IN  IF yielding = <<>> THEN ret = None
            ELSE /\ ret.t = "loc"
                 /\ ret.lat = NumericAt(yielding[1], <<"lat", "latitude">>)
                 /\ ret.lon = NumericAt(yielding[1], <<"lon", "longitude">>)

\* The three places of a payload: the top level, and what it holds under
\* either container key gps_stats / gpsStats and location / position.
Places(doc) ==
    {doc} \cup {doc.d[k] : k \in {n \in {"gps_stats", "gpsStats", "location", "position"} :
                                    Has(doc, n)}}

\* C12: _extract_location never raises, and returns None only if none of
\* the three places yields both a latitude (as lat or latitude) and a
\* longitude (as lon or longitude) that is numeric: a missing, null or
\* non-numeric value under one spelling or one container key does not hide
\* a valid value under the other.
C12_TolerantExtraction ==
    fpc = "done" =>
        /\ ret.t # "raise"
        /\ ret = None => \A place \in Places(args.payload) : ~PlaceYields(place)

\* ------------------------------------------------------------------------
\* Properties of the sentence encoder (under SpecEncode)
\* ------------------------------------------------------------------------

\* Bit k of the number n.
BitOf(n, k) == (n \div (2 ^ k)) % 2

\* The exclusive-OR of the character codes of s, bit by bit: bit k is set
\* when an odd number of characters have it set.
XorOfCodes(s) ==
    LET bit(k) == Cardinality({i \in 1..Len(s) : BitOf(Ord(s[i]), k) = 1}) % 2
    IN  bit(0) + 2 * bit(1) + 4 * bit(2) + 8 * bit(3) + 16 * bit(4) + 32 * bit(5)
        + 64 * bit(6) + 128 * bit(7)

\* The value of an uppercase hexadecimal digit; -1 for any other character.
HexValue(ch) ==
    LET c == Ord(ch)
    IN  IF c >= 48 /\ c <= 57 THEN c - 48
        ELSE IF c >= 65 /\ c <= 70 THEN c - 55
        ELSE 0 - 1

\* The text is the number n as exactly two uppercase hexadecimal digits.
IsHexOf(text, n) ==
    /\ Len(text) = 2
    /\ HexValue(text[1]) >= 0 /\ HexValue(text[2]) >= 0
    /\ 16 * HexValue(text[1]) + HexValue(text[2]) = n

\* The sentence is "$" + body + "*" + the checksum of exactly the
\* characters between the "$" and the only "*".
IsFramed(sentence, body) ==
    LET n == Len(sentence)
    IN  /\ n = Len(body) + 4
        /\ sentence[1] = "$"
        /\ SubSeq(sentence, 2, n - 3) = body
        /\ sentence[n - 2] = "*"
        /\ \A i \in 2..(n - 3) : sentence[i] \notin {"$", "*"}
        /\ IsHexOf(SubSeq(sentence, n - 1, n), XorOfCodes(SubSeq(sentence, 2, n - 3)))

\* C13: nmea_checksum gives the exclusive-OR of the character codes of the
\* body as exactly two uppercase hexadecimal digits, zero-padded; build_rmc
\* and build_gga give "$" + body + "*" + the checksum of the characters
\* between "$" and "*".
C13_Checksum ==
    fpc = "done" =>
        /\ ret.fn = "nmea_checksum" => IsHexOf(ret.v, XorOfCodes(args.body))
        /\ ret.fn = "build_rmc" =>
              IsFramed(ret.v, RmcBody(args.ts_utc, args.lat, args.lon))
        /\ ret.fn = "build_gga" =>
              IsFramed(ret.v, GgaBody(args.ts_utc, args.lat, args.lon, args.alt_m))

\* The checksum of "$*" is 36 ^ 42 = 14: a checksum below 16 is rendered
\* with its leading zero.
C13_Witness ==
    /\ fpc = "done"
    /\ ret.fn = "nmea_checksum"
    /\ args.body = <<"$", "*">>
    /\ ret.v = <<"0", "E">>

\* The number a string of decimal digits writes; -1 if a character is no digit.
DigitsValue(s) ==
    IF \E i \in 1..Len(s) : Ord(s[i]) < 48 \/ Ord(s[i]) > 57 THEN 0 - 1
    ELSE LET place(i) == (Ord(s[i]) - 48) * (10 ^ (Len(s) - i))
             sum[i \in 0..Len(s)] == IF i = 0 THEN 0 ELSE sum[i - 1] + place(i)
         IN  sum[Len(s)]

\* C15: for a latitude in [-90, 90] and a longitude in [-180, 180],
\* format_lat_lon gives a field DDMM.MMM (latitude) or DDDMM.MMM (longitude)
\* whose degrees are the truncated absolute value and whose minutes, as
\* rendered, lie in 00.000 .. 59.999, with hemisphere S / W exactly for a
\* negative value and N / E otherwise.
C15_FieldShape ==
    (fpc = "done" /\ ret.fn = "format_lat_lon") =>
        LET field == ret.v[1]
            w     == IF args.is_lat THEN 2 ELSE 3
            mm    == DigitsValue(SubSeq(field, w + 1, w + 2))
            frac  == DigitsValue(SubSeq(field, w + 4, w + 6))
        IN  /\ Len(field) = w + 6
            /\ DigitsValue(SubSeq(field, 1, w)) = Abs(args.value) \div Scale
            /\ field[w + 3] = "."
            /\ mm >= 0 /\ mm <= 59
            /\ frac >= 0 /\ frac <= 999
            /\ ret.v[2] = IF args.value < 0
                          THEN (IF args.is_lat THEN "S" ELSE "W")
                          ELSE (IF args.is_lat THEN "N" ELSE "E")

\* ------------------------------------------------------------------------
\* The extractor followed by the encoders (under SpecExtract)
\* ------------------------------------------------------------------------

\* The indices of the commas of a sentence.
Commas(s) == {i \in 1..Len(s) : s[i] = ","}

\* The k-th comma-separated field of a sentence (k >= 1): the characters
\* after the (k-1)-th comma up to the k-th comma, or the end.
FieldOf(s, k) ==
    LET before(i) == Cardinality({j \in Commas(s) : j < i})
        from == IF k = 1 THEN 0
                ELSE CHOOSE i \in Commas(s) : before(i) = k - 2
        to   == IF Cardinality(Commas(s)) < k THEN Len(s) + 1
                ELSE CHOOSE i \in Commas(s) : before(i) = k - 1
    IN  SubSeq(s, from + 1, to - 1)

\* C14: the document {"location":{"latitude":10.5,"longitude":20.25,
\* "altitudeMeters":100}} gives a location through _extract_location, and
\* build_rmc and build_gga of it give an RMC sentence with latitude field
\* 1030.000, hemisphere N, longitude field 02015.000, hemisphere E, and a
\* GGA sentence with altitude field 100.0.
C14_EndToEnd ==
    args = [payload |-> JsonLoads(DocLocation)] =>
        /\ fpc = "done" => ret.t = "loc"
        /\ fpc = "encoded" =>
              /\ FieldOf(ret.rmc, 1) = <<"$", "G", "P", "R", "M", "C">>
              /\ FieldOf(ret.rmc, 4) = <<"1", "0", "3", "0", ".", "0", "0", "0">>
              /\ FieldOf(ret.rmc, 5) = <<"N">>
              /\ FieldOf(ret.rmc, 6) = <<"0", "2", "0", "1", "5", ".", "0", "0", "0">>
              /\ FieldOf(ret.rmc, 7) = <<"E">>
              /\ FieldOf(ret.gga, 1) = <<"$", "G", "P", "G", "G", "A">>
              /\ FieldOf(ret.gga, 10) = <<"1", "0", "0", ".", "0">>
              /\ FieldOf(ret.gga, 11) = <<"M">>

\* The document has gone through the extractor and both encoders.
C14_Witness ==
    /\ fpc = "encoded"
    /\ args.payload = JsonLoads(DocLocation)
    /\ ret.loc = [t |-> "loc", lat |-> 10500000, lon |-> 20250000, alt |-> 100000000]
    /\ Len(ret.rmc) > 60 /\ Len(ret.gga) > 60

\* ------------------------------------------------------------------------
\* Properties of the test-file mode and of the accept pass (under Spec)
\* ------------------------------------------------------------------------

\* The file of the cycle is missing, or is not a JSON document.
Unreadable(file) == file.t = "raise" \/ JsonLoads(file.body).t = "raise"

\* C16: with a test file configured, no cycle of serve_tcp or serve_udp
\* resolves the device address, at startup or later, or calls the live
\* acquisition; the location of a cycle is what _extract_location gives for
\* the parsed file (none when the extraction raises), and a missing or
\* unparsable file gives no location, no output and no exception.
C16_TestFileOnly ==
    (Truthy(test_file) /\ pc \notin {"off", "start", "resolve", "failed"}) =>
        /\ "detect_dish_host" \notin Range(cycle.calls)
        /\ "get_starlink_location" \notin Range(cycle.calls)
        /\ ~cycle.redetected
        /\ resolved_host = None /\ last_detect = 0
        /\ cycle.acquired =>
              /\ cycle.calls = <<"get_starlink_location_from_file">>
              /\ location = IF Unreadable(cycle.file) THEN None
                            ELSE IF _extract_location(JsonLoads(cycle.file.body)).t = "raise"
                            THEN None
                            ELSE _extract_location(JsonLoads(cycle.file.body))
              /\ location.t \in {"none", "loc"}
              /\ (Unreadable(cycle.file) /\ Delivered) =>
                    (pc = "sleep" /\ cycle.writes = <<>> /\ cycle.datagrams = <<>>)

\* More than 30 seconds after startup a cycle of the test-file mode finds
\* the file missing: it has no location and goes to sleep, having resolved
\* nothing.
C16_Witness ==
    /\ Truthy(test_file) /\ pc = "sleep"
    /\ now > 30
    /\ cycle.file = Raise("FileNotFoundError")
    /\ location = None
    /\ cycle.calls = <<"get_starlink_location_from_file">>

\* What holds of the accept pass in each state of serve_tcp.
AcceptPassState ==
    mode = "tcp" =>
        /\ pc = "accept" => ENABLED Accept
        /\ pc \in {"acquire", "redetect", "deliver"} =>
              /\ \A c \in Range(cycle.pending0) :
                    c \in Range(clients) /\ c \notin Range(pending)
              /\ Range(cycle.pending0) \subseteq Range(cycle.accepted)
              /\ cycle.listed = clients
        /\ (pc = "sleep" /\ HasLocation(location)) =>
              \A c \in Range(cycle.pending0) :
                  /\ WritesTo(c) = 1
                  /\ \E i \in 1..Len(cycle.writes) :
                        cycle.writes[i] = [client |-> c, data |-> payload]

\* What holds of each step of the accept pass: it is left only when no
\* connection is pending, and with none pending it is not continued.
AcceptPassStep ==
    /\ (pc = "accept" /\ pc' = "acquire") => pending = <<>>
    /\ (pc = "accept" /\ pc' = "accept" /\ pending = <<>>) =>
          (pending' # <<>> /\ clients' = clients)

\* C17: in serve_tcp every connection pending when a cycle starts is
\* accepted and in the client list before the acquisition and the delivery
\* of that cycle, and is written the payload of the cycle when a location
\* is acquired; the accept pass ends when no connection is pending and
\* never waits for one.
C17_AcceptPass == [](AcceptPassState) /\ [][AcceptPassStep]_vars

\* One client is connected and two connections are pending when the cycle
\* starts: all three are written the payload of the cycle.
C17_Witness ==
    /\ mode = "tcp" /\ pc = "sleep" /\ HasLocation(location)
    /\ cycle.pending0 = <<2, 3>>
    /\ cycle.before = <<1, 2, 3>>
    /\ Len(cycle.writes) = 3

\* ------------------------------------------------------------------------
\* Properties of _call_with_host (under SpecCall)
\* ------------------------------------------------------------------------

\* C18: with a resolved address _call_with_host calls the operation with
\* the address as keyword, then, only after a TypeError, with the address
\* positionally, then, only after a second TypeError, without argument, and
\* gives the outcome of the last call made; with an unresolved address it
\* calls the operation once, without argument.  At most three calls are
\* made, and an exception that is no TypeError ends the calls and is the
\* outcome.
C18_CallShapes ==
    fpc = "done" =>
        LET f == args.func
            c == ret.calls
            n == Len(ret.calls)
        IN  /\ n >= 1 /\ n <= 3
            /\ ret.ret = f[c[n]]
            /\ \A i \in 1..(n - 1) : f[c[i]] = Raise("TypeError")
            /\ ~Truthy(args.host) => c = <<"noarg">>
            /\ Truthy(args.host) =>
                  /\ c = SubSeq(<<"kw", "pos", "noarg">>, 1, n)
                  /\ n < 3 => ret.ret # Raise("TypeError")
                  /\ n >= 2 <=> f.kw = Raise("TypeError")
                  /\ n = 3 <=> (f.kw = Raise("TypeError") /\ f.pos = Raise("TypeError"))

\* The keyword call raises TypeError, the positional call raises another
\* exception: it is the outcome, and the call without argument, which would
\* have returned a payload, is not made.
C18_Witness ==
    /\ fpc = "done"
    /\ args.host = Text("10.0.0.5")
    /\ args.func.kw = Raise("TypeError")
    /\ args.func.pos = Raise("GrpcError")
    /\ args.func.noarg = PayDish
    /\ ret = [ret |-> Raise("GrpcError"), calls |-> <<"kw", "pos">>]

\* ------------------------------------------------------------------------
\* Properties of get_starlink_location_http (under SpecHttp)
\* ------------------------------------------------------------------------

\* The texts handed to json.loads for the response of a path, in order.
ParsedFor(trace, path) ==
    LET picked == SelectSeq(trace, LAMBDA e : e.op = "json.loads" /\ e.path = path)
    IN  [i \in 1..Len(picked) |-> picked[i].text]

\* The opening braces of a body minus its closing braces, from s to e.
Depth(body, s, e) ==
    Cardinality({i \in s..e : body[i] = "{"}) - Cardinality({i \in s..e : body[i] = "}"})

\* The least member of a non-empty set of indices.
Least(S) == CHOOSE i \in S : \A j \in S : i <= j

\* The text of a body that is to be parsed: from its first "{" to the first
\* "}" that brings the depth counted from there back to zero, if the body
\* holds both words, a "{" and such a "}"; nothing otherwise.
ToParse(body) ==
    LET opens  == {i \in 1..Len(body) : body[i] = "{"}
        closes == {e \in Least(opens)..Len(body) :
                      body[e] = "}" /\ Depth(body, Least(opens), e) = 0}
    IN  IF ~Contains(body, "location") \/ ~Contains(body, "latitude") THEN <<>>
        ELSE IF opens = {} THEN <<>>
        ELSE IF closes = {} THEN <<>>
        ELSE <<SubSeq(body, Least(opens), Least(closes))>>

\* The answer to a path is a response whose content type is not JSON.
NotJson(resp) == resp.t = "response" /\ ~IsJsonType(resp.ctype)

\* C19: for a response whose content type is not JSON, json.loads is given
\* a text only if the body holds both "location" and "latitude", and the
\* text runs from the first "{" to the first "}" at which the depth
\* counted from that "{" is back to zero; without a "{", or when the depth
\* never comes back to zero, nothing is parsed and the next path is
\* requested ("/" after "/api/diagnostic"; after "/" the result is None).
C19_BraceScan ==
    fpc = "done" =>
        LET tr == ret.trace
        IN  /\ Requested(tr, "/api/diagnostic")
            /\ NotJson(args.web.diag) =>
                  /\ ParsedFor(tr, "/api/diagnostic") = ToParse(args.web.diag.body)
                  /\ ToParse(args.web.diag.body) = <<>> => Requested(tr, "/")
            /\ (NotJson(args.web.root) /\ Requested(tr, "/")) =>
                  /\ ParsedFor(tr, "/") = ToParse(args.web.root.body)
                  /\ ToParse(args.web.root.body) = <<>> => ret.ret = None

\* The body holds the document, nested, and more closing braces after it:
\* the text parsed is the document and its location is returned.
C19_Witness ==
    /\ fpc = "done"
    /\ args.web.diag.body = <<"<html>">> \o DocLocation \o <<"}", "</html>">>
    /\ ParsedFor(ret.trace, "/api/diagnostic") = <<DocLocation>>
    /\ ret.ret = [t |-> "loc", lat |-> 10500000, lon |-> 20250000, alt |-> 100000000]
    /\ ~Requested(ret.trace, "/")

============================================================================
